---- MODULE Spec2Model ----
(***************************************************************************)
(* Report lifecycle and points/rewards ledger of the waste-management      *)
(* server.                                                                 *)
(*                                                                         *)
(* The server is an Express application on Node.js: a request handler runs *)
(* without interruption from one `await` to the next, and handlers of      *)
(* different requests interleave at every `await`.  A Mongoose document is *)
(* a private copy of the stored document, read by findById; save() writes  *)
(* back only the paths the handler modified ($set for a scalar path, $push *)
(* for an array push) and checks no version.  Each action below is the     *)
(* stretch of a handler between two awaits: the awaited database operation *)
(* takes effect, then the synchronous code that follows it runs.           *)
(***************************************************************************)
EXTENDS Integers, Sequences, FiniteSets, TLC

(* ------------------------------ bounds -------------------------------- *)

\* Requests that can be in flight at once.
MaxReq == 2
\* Requests that pass their checks and go on to write, over a whole run.
MaxCalls == 5
\* Reports in the collection.
MaxReports == 1
\* Largest points value an admin passes to award-points (the route accepts 1..1000).
MaxAward == 2
\* Balance of the citizen and stock of each reward at the start.
InitPoints == 1
InitStock == 2
\* Distinct coupon codes the generators can produce.
MaxCodes == 3
\* Points a reward costs.
RewardCost == 1
\* Days, counted from the start of the server, on which the stored reward
\* starts and ceases to be valid.
ValidFrom == 1
ValidUntil == 1
\* Days a reward of the array is valid from the start of the server, and days
\* an array redemption is valid from its creation (30 * 24 * 60 * 60 * 1000 ms).
RedemptionDays == 30
\* The validators of the submit route: the least length of a description,
\* the greatest latitude and the greatest longitude (coordinates are kept in
\* thousandths of a degree).
MinDescription == 10
MaxLat == 90000
MaxLng == 180000
\* The hotspots route: the default of minReports, the bounds its validator
\* puts on it, the number of cells returned at most, and the report counts
\* from which a cell is of medium and of high severity.
DefaultMinReports == 5
LeastMinReports == 2
MostMinReports == 100
HotspotLimit == 20
MediumFrom == 10
HighFrom == 20
\* Cells of the hotspot grid that hold reports.
MaxCells == 21
\* Readings of the clock a minute is made of, and the latest reading at
\* which a cleanup starts.
Minute == 4
MaxStart == 2
\* The latest reading of the rate limiter's clock.
MaxClock == 3
\* The reports submitted while reportIds are looked at.
MaxSubmits == 5

Slots == 1..MaxReq
Reports == 1..MaxReports
Codes == 1..MaxCodes
\* Clock readings of a request, in days since the start of the server: the
\* first day, the last day of the array reward's validity, the day after.
Times == {1, RedemptionDays, RedemptionDays + 1}
\* Clock readings of a request for the stored reward: before, at the ends of
\* and after its validity.
StoredTimes == {ValidFrom - 1, ValidFrom, ValidUntil, ValidUntil + 1}

\* The id of the one reward of each catalogue.
RewardId == "reward_1"

Citizens == {"c1"}
\* The citizen whose reports and balance are followed.
Citizen == "c1"
Collectors == {"k1", "k2"}
Admins == {"a1"}

VARIABLES
  reports,          \* the Report collection: report id -> stored document
  points,           \* User.points of each citizen
  completedReports, \* User.completedReports of each citizen
  assignedReports,  \* User.assignedReports of each collector
  completedTasks,   \* User.completedTasks of each collector
  totalReports,     \* User.totalReports of each citizen
  isActive,         \* User.isActive of each collector
  rewardDocs,       \* the stored Reward document (models/Reward)
  redemptionDocs,   \* the Redemption collection (models/Reward)
  rewards,          \* the reward object of the in-memory rewards array (routes/rewards)
  redemptions,      \* the in-memory redemptions array (routes/rewards)
  req,              \* the requests in flight: slot -> handler position and locals
  rateLimitStore,   \* global.rateLimitStore: key -> the timestamps recorded for it
  clock,            \* what Date.now() returns
  reportIds,        \* the reportId of each document of the Report collection
  listed,           \* whether the reward object is in the rewards array
  tally             \* history: the last response and what the handlers did so far

vars == <<reports, points, completedReports, assignedReports, completedTasks,
          totalReports, isActive, rewardDocs, redemptionDocs, rewards, redemptions, req,
          rateLimitStore, clock, reportIds, listed, tally>>

reportVars ==
  <<reports, completedReports, assignedReports, completedTasks, totalReports, isActive>>
ledgerVars == <<rewardDocs, redemptionDocs, rewards, redemptions>>
serverVars == <<rateLimitStore, clock, reportIds, listed>>

(* ------------------------------ documents ----------------------------- *)

\* mlClassification as the schema's defaults leave it (isWaste null,
\* wasteType 'unknown'), and the annotations a classifier may have stored.
Unclassified == [isWaste |-> "null", wasteType |-> "unknown"]
Classifications ==
  {Unclassified, [isWaste |-> "false", wasteType |-> "unknown"],
   [isWaste |-> "true", wasteType |-> "plastic"],
   [isWaste |-> "true", wasteType |-> "hazardous"]}

\* The citizen who submitted a report (Report.citizen, never reassigned).
CitizenOf(r) == "c1"

\* A report as the submit route stores it: the schema defaults give status
\* 'submitted', pointsAwarded 0, no assignedTo and an empty statusHistory.
NewReport ==
  [status |-> "submitted", statusHistory |-> <<>>, assignedTo |-> "none",
   verifiedBy |-> "none", pointsAwarded |-> 0, mlClassification |-> Unclassified,
   descriptionLength |-> MinDescription, lat |-> 0, lng |-> 0, image |-> TRUE,
   afterCleanup |-> FALSE]

\* An id under which no report is stored yet.
NoDocument ==
  [status |-> "none", statusHistory |-> <<>>, assignedTo |-> "none",
   verifiedBy |-> "none", pointsAwarded |-> 0, mlClassification |-> Unclassified,
   descriptionLength |-> 0, lat |-> 0, lng |-> 0, image |-> FALSE,
   afterCleanup |-> FALSE]

\* The ids of the stored reports.  A request for another id is answered 404
\* REPORT_NOT_FOUND and writes nothing.
Stored == {r \in Reports : reports[r].status # "none"}

\* A report that went through verify, assign, start and complete.
CompletedReport ==
  [status |-> "completed",
   statusHistory |-> << [status |-> "verified", changedBy |-> "a1"],
                        [status |-> "assigned", changedBy |-> "a1"],
                        [status |-> "in_progress", changedBy |-> "k1"],
                        [status |-> "completed", changedBy |-> "k1"] >>,
   assignedTo |-> "k1", verifiedBy |-> "a1", pointsAwarded |-> 0,
   mlClassification |-> Unclassified,
   descriptionLength |-> MinDescription, lat |-> 0, lng |-> 0, image |-> TRUE,
   afterCleanup |-> TRUE]

\* The private copy of a report a handler works on (findById).
Copy(doc) ==
  [status |-> doc.status, assignedTo |-> doc.assignedTo,
   pointsAwarded |-> doc.pointsAwarded, mlClassification |-> doc.mlClassification]
Snapshot(r) == Copy(reports[r])

\* A free request slot.
IdleReq ==
  [kind |-> "none", pc |-> "idle", rid |-> 0, actor |-> "none",
   action |-> "none", collectorId |-> "none", pts |-> 0,
   upts |-> 0, rsnap |-> [remainingQuantity |-> 0, totalRedeemed |-> 0],
   code |-> 0, now |-> 0, gen |-> 0, file |-> FALSE, count |-> 0]

Idle(p) == req[p].pc = "idle"
AllIdle == \A p \in Slots : Idle(p)
\* A new request takes the first free slot (the slots are interchangeable).
Free(p) == Idle(p) /\ \A q \in Slots : q < p => ~Idle(q)

\* The response to a request: what was asked, what the handler read when it
\* started (the report's status and pointsAwarded, the caller's balance) and
\* the error code or "OK" it answered.  For a redeem request it also keeps
\* the reward's stock and the number of redemptions when the request arrived.
\* arg keeps one more input of the request where a route has one (the clock
\* reading, the amount, whether a file was uploaded); returned is the balance
\* a response reports (citizenPoints, remainingPoints).
Response(kind, rid, seen, balance, outcome) ==
  [kind |-> kind, rid |-> rid, status |-> seen.status,
   pointsAwarded |-> seen.pointsAwarded, balance |-> balance, outcome |-> outcome,
   stock |-> 0, count |-> 0, arg |-> 0, returned |-> 0]

With(response, arg) == [response EXCEPT !.arg = arg]

Arrived(response, stock, count) == [response EXCEPT !.stock = stock, !.count = count]

NoReport ==
  [status |-> "none", assignedTo |-> "none", pointsAwarded |-> 0,
   mlClassification |-> Unclassified]
NoResponse == Response("none", 0, NoReport, 0, "none")

\* A request that passes its checks goes on to write.
Admit == tally.calls < MaxCalls
Admitted(p, q, seen, balance) ==
  /\ Admit
  /\ req' = [req EXCEPT ![p] = q]
  /\ tally' = [tally EXCEPT !.calls = @ + 1,
                            !.open[p] = Response(q.kind, q.rid, seen, balance, "none")]

\* A request that fails a check is answered at once and writes nothing.
Refused(p, kind, rid, seen, balance, outcome) ==
  /\ req' = req
  /\ tally' = [tally EXCEPT !.last = Response(kind, rid, seen, balance, outcome)]

\* The last step of a request that went on to write.
Answered(p, outcome) ==
  /\ req' = [req EXCEPT ![p] = IdleReq]
  /\ tally' = [tally EXCEPT !.last = [tally.open[p] EXCEPT !.outcome = outcome],
                            !.open[p] = NoResponse]

AnsweredWith(p, outcome, arg) ==
  /\ req' = [req EXCEPT ![p] = IdleReq]
  /\ tally' = [tally EXCEPT !.last = With([tally.open[p] EXCEPT !.outcome = outcome], arg),
                            !.open[p] = NoResponse]

ChangeStatus_Rewrite(doc, newStatus, changedBy) ==
  [doc EXCEPT !.status = newStatus,
              !.statusHistory = <<[status |-> newStatus, changedBy |-> changedBy]>>,
              !.verifiedBy = IF newStatus = "verified" THEN changedBy ELSE @]

\* changeStatus as save() applies it to the stored document: status is $set,
\* the history entry is $push-ed, verifiedBy is $set for 'verified'.
ChangeStatus(doc, newStatus, changedBy) ==
  [doc EXCEPT !.status = newStatus,
              !.statusHistory = Append(@, [status |-> newStatus, changedBy |-> changedBy]),
              !.verifiedBy = IF newStatus = "verified" THEN changedBy ELSE @]

(* ------------------------ middleware/auth, users ----------------------- *)

\* authenticateToken answers 401 ACCOUNT_DEACTIVATED to a caller whose
\* isActive is false.
Deactivated(caller) == ~isActive[caller]

\* PUT /api/users/:id/status: findById, user.isActive = isActive, save().
SetStatus(p, admin, user, active) ==
  /\ Free(p)
  /\ isActive' = [isActive EXCEPT ![user] = active]
  /\ req' = req
  /\ tally' = [tally EXCEPT !.last = Response("status", 0, NoReport, 0, "OK")]
  /\ UNCHANGED <<reports, points, completedReports, assignedReports, completedTasks,
                 totalReports, ledgerVars>>
  /\ UNCHANGED serverVars

(* -------------------------- POST /api/reports -------------------------- *)

\* What a submit request carries: the description (by its length after
\* trim()), the coordinates and whether an image is uploaded.  The title and
\* the address are taken to pass their validators.
SubmitInputs ==
  [descriptionLength : {0, MinDescription - 1, MinDescription},
   lat : {(0 - MaxLat) - 1, 0 - MaxLat, MaxLat, MaxLat + 1},
   lng : {(0 - MaxLng) - 1, 0 - MaxLng, MaxLng, MaxLng + 1},
   image : BOOLEAN]

ReportValidation_Any(input) == TRUE

\* reportValidation: isLength({min: 10}) on the description, isFloat with
\* the bounds of a latitude and of a longitude on the coordinates.
ReportValidation(input) ==
  /\ input.descriptionLength >= MinDescription
  /\ input.lat >= 0 - MaxLat /\ input.lat <= MaxLat
  /\ input.lng >= 0 - MaxLng /\ input.lng <= MaxLng

\* validationResult and the req.file check answer 400 before anything is
\* written; then new Report({...}) and save(): the document is stored with
\* the request's fields and the schema's defaults.  (Reports are created
\* until the ids run out.)
SubmitSave(p, r, citizen, input) ==
  /\ Free(p)
  /\ r \notin Stored
  /\ citizen = CitizenOf(r)
  /\ IF ~ReportValidation(input)
     THEN /\ Refused(p, "submit", r, NoReport, 0, "VALIDATION_FAILED")
          /\ UNCHANGED reports
     ELSE IF ~input.image
     THEN /\ Refused(p, "submit", r, NoReport, 0, "NO_IMAGE")
          /\ UNCHANGED reports
     ELSE /\ reports' = [reports EXCEPT ![r] =
                           [NewReport EXCEPT !.descriptionLength = input.descriptionLength,
                                             !.lat = input.lat, !.lng = input.lng,
                                             !.image = input.image]]
          /\ req' = [req EXCEPT ![p] = [IdleReq EXCEPT !.kind = "submit", !.pc = "su_user",
                                                       !.rid = r, !.actor = citizen]]
          /\ tally' = [tally EXCEPT !.open[p] = Response("submit", r, NoReport, 0, "none")]
  /\ UNCHANGED <<points, completedReports, assignedReports, completedTasks, totalReports, isActive,
                 ledgerVars>>
  /\ UNCHANGED serverVars

\* findByIdAndUpdate(citizen, {$inc: {totalReports: 1}}); the response.
SubmitUser(p) ==
  /\ req[p].pc = "su_user"
  /\ totalReports' = [totalReports EXCEPT ![req[p].actor] = @ + 1]
  /\ Answered(p, "OK")
  /\ UNCHANGED <<reports, points, completedReports, assignedReports, completedTasks,
                 isActive, ledgerVars>>
  /\ UNCHANGED serverVars

(* ------------------ models/Report: pre('save'), reportId --------------- *)

\* String(n): the decimal digits of n.
RECURSIVE Digits(_)
Digits(n) == IF n < 10 THEN <<n>> ELSE Append(Digits(n \div 10), n % 10)

\* padStart(targetLength, '0').
RECURSIVE PadStart(_, _)
PadStart(digits, targetLength) ==
  IF Len(digits) >= targetLength THEN digits
  ELSE PadStart(<<0>> \o digits, targetLength)

\* `WR${String(count + 1).padStart(6, '0')}`
ReportId(count) == <<"W", "R">> \o PadStart(Digits(count + 1), 6)

\* The unique index on reportId refuses a second document with the same id.
DuplicateKey(reportId) == \E i \in DOMAIN reportIds : reportIds[i] = reportId

\* POST /api/reports with valid fields and an image, up to save(): the
\* pre('save') hook finds the new document without a reportId and awaits
\* countDocuments().
SubmitCount(p, citizen) ==
  /\ Free(p)
  /\ tally.calls < MaxSubmits
  /\ req' = [req EXCEPT ![p] = [IdleReq EXCEPT !.kind = "submit", !.pc = "su_insert",
                                               !.actor = citizen,
                                               !.count = Len(reportIds)]]
  /\ tally' = [tally EXCEPT !.calls = @ + 1,
                            !.open[p] = Response("submit", 0, NoReport, 0, "none")]
  /\ UNCHANGED <<reportVars, points, ledgerVars, serverVars>>

\* The hook sets reportId from the count it read and the document is
\* inserted; a duplicate key makes save() throw, which the route answers
\* with 500 SUBMISSION_ERROR.
SubmitInsert(p) ==
  /\ req[p].pc = "su_insert"
  /\ LET reportId == ReportId(req[p].count)
     IN IF DuplicateKey(reportId)
        THEN /\ Answered(p, "SUBMISSION_ERROR")
             /\ UNCHANGED reportIds
        ELSE /\ reportIds' = Append(reportIds, reportId)
             /\ req' = [req EXCEPT ![p].pc = "su_user"]
             /\ tally' = tally
  /\ UNCHANGED <<reportVars, points, ledgerVars, rateLimitStore, clock, listed>>

(* --------------------- PUT /api/reports/:id/verify --------------------- *)

VerifyRefused_Classified(snap) ==
  snap.status # "submitted" \/ snap.mlClassification.isWaste = "false"

\* The status check of the verify route.
VerifyRefused(snap) == snap.status # "submitted"

\* findById, the status check, and changeStatus on the private copy.
VerifyLoad(p, r, admin, action) ==
  /\ Free(p)
  /\ LET snap == Snapshot(r)
     IN IF VerifyRefused(snap)
        THEN Refused(p, "verify", r, snap, 0, "INVALID_STATUS")
        ELSE Admitted(p, [IdleReq EXCEPT !.kind = "verify", !.pc = "v_save", !.rid = r,
                                         !.actor = admin, !.action = action], snap, 0)
  /\ UNCHANGED <<reportVars, points, ledgerVars>>
  /\ UNCHANGED serverVars

\* The save() inside changeStatus takes effect; the response is sent.  (A
\* rejection saves verificationNotes once more before it answers.)
VerifySave(p) ==
  /\ req[p].pc = "v_save"
  /\ LET newStatus == IF req[p].action = "approve" THEN "verified" ELSE "rejected"
     IN reports' = [reports EXCEPT ![req[p].rid] = ChangeStatus(@, newStatus, req[p].actor)]
  /\ Answered(p, "OK")
  /\ UNCHANGED <<points, completedReports, assignedReports, completedTasks, totalReports, isActive, ledgerVars>>
  /\ UNCHANGED serverVars

(* --------------------- PUT /api/reports/:id/assign --------------------- *)

AssignRefused(snap) == snap.status # "verified"

\* User.findById(collectorId) must find a user whose role is 'collector'.
InvalidCollector(collectorId) == collectorId \notin Collectors

AssignLoad(p, r, admin, collectorId) ==
  /\ Free(p)
  /\ LET snap == Snapshot(r)
     IN IF AssignRefused(snap)
        THEN Refused(p, "assign", r, snap, 0, "INVALID_STATUS")
        ELSE IF InvalidCollector(collectorId)
        THEN Refused(p, "assign", r, snap, 0, "INVALID_COLLECTOR")
        ELSE Admitted(p, [IdleReq EXCEPT !.kind = "assign", !.pc = "as_save", !.rid = r,
                                         !.actor = admin, !.collectorId = collectorId],
                      snap, 0)
  /\ UNCHANGED <<reportVars, points, ledgerVars>>
  /\ UNCHANGED serverVars

\* save(): assignedTo is $set together with the status change.
AssignSave(p) ==
  /\ req[p].pc = "as_save"
  /\ reports' = [reports EXCEPT ![req[p].rid] =
                   [ChangeStatus(@, "assigned", req[p].actor)
                      EXCEPT !.assignedTo = req[p].collectorId]]
  /\ req' = [req EXCEPT ![p].pc = "as_user"]
  /\ UNCHANGED <<points, completedReports, assignedReports, completedTasks, totalReports, isActive,
                 ledgerVars, tally>>
  /\ UNCHANGED serverVars

\* findByIdAndUpdate(collectorId, {$addToSet: {assignedReports}}).
AssignUser(p) ==
  /\ req[p].pc = "as_user"
  /\ assignedReports' = [assignedReports EXCEPT ![req[p].collectorId] = @ \cup {req[p].rid}]
  /\ Answered(p, "OK")
  /\ UNCHANGED <<reports, points, completedReports, completedTasks, totalReports, isActive, ledgerVars>>
  /\ UNCHANGED serverVars

(* ---------------------- PUT /api/reports/:id/start --------------------- *)

\* report.assignedTo.toString() throws a TypeError when assignedTo is unset;
\* the handler's catch answers 500 with the route's error code.
OwnershipCheck(snap, caller, internalError) ==
  IF snap.assignedTo = "none" THEN internalError
  ELSE IF snap.assignedTo # caller THEN "ACCESS_DENIED"
  ELSE "pass"

StartRefused(snap) == snap.status # "assigned"

StartLoad(p, r, caller) ==
  /\ Free(p)
  /\ LET snap == Snapshot(r)
         own == OwnershipCheck(snap, caller, "START_ERROR")
     IN IF Deactivated(caller)
        THEN Refused(p, "start", r, snap, 0, "ACCOUNT_DEACTIVATED")
        ELSE IF own # "pass"
        THEN Refused(p, "start", r, snap, 0, own)
        ELSE IF StartRefused(snap)
        THEN Refused(p, "start", r, snap, 0, "INVALID_STATUS")
        ELSE Admitted(p, [IdleReq EXCEPT !.kind = "start", !.pc = "st_save", !.rid = r,
                                         !.actor = caller], snap, 0)
  /\ UNCHANGED <<reportVars, points, ledgerVars>>
  /\ UNCHANGED serverVars

StartSave(p) ==
  /\ req[p].pc = "st_save"
  /\ reports' = [reports EXCEPT ![req[p].rid] = ChangeStatus(@, "in_progress", req[p].actor)]
  /\ Answered(p, "OK")
  /\ UNCHANGED <<points, completedReports, assignedReports, completedTasks, totalReports, isActive, ledgerVars>>
  /\ UNCHANGED serverVars

(* -------------------- PUT /api/reports/:id/complete -------------------- *)

CompleteRefused(snap) == snap.status # "in_progress"

NoAfterImage_Never(file) == FALSE
\* if (!req.file): no after-cleanup image was uploaded.
NoAfterImage(file) == ~file

CompleteLoad(p, r, caller, file) ==
  /\ Free(p)
  /\ LET snap == Snapshot(r)
         own == OwnershipCheck(snap, caller, "COMPLETE_ERROR")
     IN IF Deactivated(caller)
        THEN Refused(p, "complete", r, snap, 0, "ACCOUNT_DEACTIVATED")
        ELSE IF own # "pass"
        THEN Refused(p, "complete", r, snap, 0, own)
        ELSE IF CompleteRefused(snap)
        THEN Refused(p, "complete", r, snap, 0, "INVALID_STATUS")
        ELSE IF NoAfterImage(file)
        THEN Refused(p, "complete", r, snap, 0, "NO_AFTER_IMAGE")
        ELSE Admitted(p, [IdleReq EXCEPT !.kind = "complete", !.pc = "co_save", !.rid = r,
                                         !.actor = caller, !.file = file], snap, 0)
  /\ UNCHANGED <<reportVars, points, ledgerVars>>
  /\ UNCHANGED serverVars

\* The after-cleanup image made from req.file and the new status are saved.
CompleteSave(p) ==
  /\ req[p].pc = "co_save"
  /\ reports' = [reports EXCEPT ![req[p].rid] =
                   [ChangeStatus(@, "completed", req[p].actor)
                      EXCEPT !.afterCleanup = req[p].file]]
  /\ req' = [req EXCEPT ![p].pc = "co_user"]
  /\ UNCHANGED <<points, completedReports, assignedReports, completedTasks, totalReports, isActive,
                 ledgerVars, tally>>
  /\ UNCHANGED serverVars

\* findByIdAndUpdate(caller, {$inc: {completedTasks}, $pull: {assignedReports}}).
CompleteUser(p) ==
  /\ req[p].pc = "co_user"
  /\ completedTasks' = [completedTasks EXCEPT ![req[p].actor] = @ + 1]
  /\ assignedReports' = [assignedReports EXCEPT ![req[p].actor] = @ \ {req[p].rid}]
  /\ Answered(p, "OK")
  /\ UNCHANGED <<reports, points, completedReports, totalReports, isActive, ledgerVars>>
  /\ UNCHANGED serverVars

(* ------------- PUT /api/reports/:id/complete: cleanup time ------------- *)

\* statusHistory.find(h => h.status === 'in_progress').changedAt: the stamp
\* of the first in_progress entry.
StartTime(history) ==
  history[CHOOSE i \in 1..Len(history) :
            /\ history[i].status = "in_progress"
            /\ \A j \in 1..(i - 1) : history[j].status # "in_progress"].changedAt

\* Math.round(n / d): the nearest integer, a half going up.
MathRound(n, d) == (2 * n + d) \div (2 * d)

\* Math.round((new Date() - startTime) / (1000 * 60)).
CleanupTime(now, startTime) == MathRound(now - startTime, Minute)

\* The complete route on a report whose history entries carry their
\* changedAt, all its awaits taken together: the checks; the after image;
\* actualCleanupTime from a reading of the clock; changeStatus, which stamps
\* the completed entry with a reading of its own; the collector's counters.
CompleteStamp(p, r, caller, file, now, later) ==
  /\ Free(p)
  /\ LET snap == Snapshot(r)
         own == OwnershipCheck(snap, caller, "COMPLETE_ERROR")
         refusal == IF Deactivated(caller) THEN "ACCOUNT_DEACTIVATED"
                    ELSE IF own # "pass" THEN own
                    ELSE IF CompleteRefused(snap) THEN "INVALID_STATUS"
                    ELSE IF NoAfterImage(file) THEN "NO_AFTER_IMAGE"
                    ELSE "pass"
     IN IF refusal # "pass"
        THEN /\ Refused(p, "complete", r, snap, 0, refusal)
             /\ UNCHANGED <<reports, completedTasks, assignedReports>>
        ELSE /\ now >= StartTime(reports[r].statusHistory)
             /\ later \in {now, now + 1}
             /\ reports' = [reports EXCEPT ![r] =
                   [@ EXCEPT !.afterCleanup = file,
                             !.actualCleanupTime =
                                CleanupTime(now, StartTime(reports[r].statusHistory)),
                             !.status = "completed",
                             !.statusHistory = Append(@, [status |-> "completed",
                                                          changedBy |-> caller,
                                                          changedAt |-> later])]]
             /\ completedTasks' = [completedTasks EXCEPT ![caller] = @ + 1]
             /\ assignedReports' = [assignedReports EXCEPT ![caller] = @ \ {r}]
             /\ req' = req
             /\ tally' = [tally EXCEPT !.last = Response("complete", r, snap, 0, "OK")]
  /\ UNCHANGED <<points, completedReports, totalReports, isActive, ledgerVars>>
  /\ UNCHANGED serverVars

(* ------------------------ models/User: points -------------------------- *)

\* addPoints on the private copy of a citizen: the balance save() then $sets.
AddPoints(balance, amount) == balance + amount

\* deductPoints: refuses when the copy's balance is below the amount.
CanDeduct(balance, amount) == balance >= amount
DeductPoints(balance, amount) == balance - amount

(* ------------------ PUT /api/reports/:id/award-points ------------------ *)

AwardRefused(snap) == snap.status # "completed"
AlreadyAwarded_NoCheck(snap) == FALSE
AlreadyAwarded(snap) == snap.pointsAwarded > 0

\* findById(...).populate('citizen'), the two checks, addPoints on the copy.
AwardLoad(p, r, admin, pts) ==
  /\ Free(p)
  /\ LET snap == Snapshot(r)
         balance == points[CitizenOf(r)]
     IN IF AwardRefused(snap)
        THEN Refused(p, "award", r, snap, balance, "INVALID_STATUS")
        ELSE IF AlreadyAwarded(snap)
        THEN Refused(p, "award", r, snap, balance, "POINTS_ALREADY_AWARDED")
        ELSE Admitted(p, [IdleReq EXCEPT !.kind = "award", !.pc = "aw_user", !.rid = r,
                                         !.actor = admin, !.pts = pts, !.upts = balance],
                      snap, balance)
  /\ UNCHANGED <<reportVars, points, ledgerVars>>
  /\ UNCHANGED serverVars

\* The citizen's save() takes effect: points is $set to the copy's new balance.
AwardUser(p) ==
  /\ req[p].pc = "aw_user"
  /\ points' = [points EXCEPT ![CitizenOf(req[p].rid)] = AddPoints(req[p].upts, req[p].pts)]
  /\ tally' = [tally EXCEPT !.added = @ + req[p].pts,
                            !.credits[req[p].rid] = @ + 1]
  /\ req' = [req EXCEPT ![p].pc = "aw_report"]
  /\ UNCHANGED <<reportVars, ledgerVars>>
  /\ UNCHANGED serverVars

\* The report's save() takes effect: pointsAwarded is $set.
AwardReport(p) ==
  /\ req[p].pc = "aw_report"
  /\ reports' = [reports EXCEPT ![req[p].rid].pointsAwarded = req[p].pts]
  /\ req' = [req EXCEPT ![p].pc = "aw_count"]
  /\ UNCHANGED <<points, completedReports, assignedReports, completedTasks, totalReports, isActive,
                 ledgerVars, tally>>
  /\ UNCHANGED serverVars

\* citizenPoints of the response: report.citizen.points + points, where
\* report.citizen is the copy addPoints has already added the points to.
CitizenPoints(copyPoints, pts) == copyPoints + pts

\* findByIdAndUpdate(citizen, {$inc: {completedReports: 1}}); the response.
AwardCount(p) ==
  /\ req[p].pc = "aw_count"
  /\ completedReports' = [completedReports EXCEPT ![CitizenOf(req[p].rid)] = @ + 1]
  /\ req' = [req EXCEPT ![p] = IdleReq]
  /\ tally' = [tally EXCEPT !.last = [tally.open[p] EXCEPT
                                        !.outcome = "OK",
                                        !.returned = CitizenPoints(
                                            AddPoints(req[p].upts, req[p].pts), req[p].pts)],
                            !.open[p] = NoResponse,
                            !.awardOk[req[p].rid] = @ + 1]
  /\ UNCHANGED <<reports, points, assignedReports, completedTasks, totalReports, isActive, ledgerVars>>
  /\ UNCHANGED serverVars

(* ---------- the report routes on two reports, call by call ------------ *)

\* Two reports of one citizen that are alike but for their mlClassification.
Pair == 1..2

\* What each route answers for a report, from the private copy it reads.
VerifyOutcome(snap) == IF VerifyRefused(snap) THEN "INVALID_STATUS" ELSE "OK"

AssignOutcome(snap, collectorId) ==
  IF AssignRefused(snap) THEN "INVALID_STATUS"
  ELSE IF InvalidCollector(collectorId) THEN "INVALID_COLLECTOR"
  ELSE "OK"

StartOutcome(snap, caller) ==
  LET own == OwnershipCheck(snap, caller, "START_ERROR")
  IN IF Deactivated(caller) THEN "ACCOUNT_DEACTIVATED"
     ELSE IF own # "pass" THEN own
     ELSE IF StartRefused(snap) THEN "INVALID_STATUS"
     ELSE "OK"

CompleteOutcome(snap, caller, file) ==
  LET own == OwnershipCheck(snap, caller, "COMPLETE_ERROR")
  IN IF Deactivated(caller) THEN "ACCOUNT_DEACTIVATED"
     ELSE IF own # "pass" THEN own
     ELSE IF CompleteRefused(snap) THEN "INVALID_STATUS"
     ELSE IF NoAfterImage(file) THEN "NO_AFTER_IMAGE"
     ELSE "OK"

AwardOutcome(snap) ==
  IF AwardRefused(snap) THEN "INVALID_STATUS"
  ELSE IF AlreadyAwarded(snap) THEN "POINTS_ALREADY_AWARDED"
  ELSE "OK"

\* The answers to one call made for each report of the pair.
Both(kind, outcome) ==
  tally' = [tally EXCEPT !.last = [kind |-> kind, outcome |-> outcome]]

\* The reports of the pair for which a call was answered OK.
Passed(outcome) == {r \in Pair : outcome[r] = "OK"}

\* One verify call for each report of the pair, each run to its end.
PairVerify(p, admin, action) ==
  /\ Free(p)
  /\ LET outcome == [r \in Pair |-> VerifyOutcome(Snapshot(r))]
         newStatus == IF action = "approve" THEN "verified" ELSE "rejected"
     IN /\ reports' = [r \in Pair |-> IF outcome[r] = "OK"
                                      THEN ChangeStatus(reports[r], newStatus, admin)
                                      ELSE reports[r]]
        /\ Both("verify", outcome)
  /\ req' = req
  /\ UNCHANGED <<points, completedReports, assignedReports, completedTasks, totalReports,
                 isActive, ledgerVars>>
  /\ UNCHANGED serverVars

PairAssign(p, admin, collectorId) ==
  /\ Free(p)
  /\ LET outcome == [r \in Pair |-> AssignOutcome(Snapshot(r), collectorId)]
     IN /\ reports' = [r \in Pair |->
                         IF outcome[r] = "OK"
                         THEN [ChangeStatus(reports[r], "assigned", admin)
                                 EXCEPT !.assignedTo = collectorId]
                         ELSE reports[r]]
        /\ assignedReports' =
             IF Passed(outcome) = {} THEN assignedReports
             ELSE [assignedReports EXCEPT ![collectorId] = @ \cup Passed(outcome)]
        /\ Both("assign", outcome)
  /\ req' = req
  /\ UNCHANGED <<points, completedReports, completedTasks, totalReports, isActive, ledgerVars>>
  /\ UNCHANGED serverVars

PairStart(p, caller) ==
  /\ Free(p)
  /\ LET outcome == [r \in Pair |-> StartOutcome(Snapshot(r), caller)]
     IN /\ reports' = [r \in Pair |-> IF outcome[r] = "OK"
                                      THEN ChangeStatus(reports[r], "in_progress", caller)
                                      ELSE reports[r]]
        /\ Both("start", outcome)
  /\ req' = req
  /\ UNCHANGED <<points, completedReports, assignedReports, completedTasks, totalReports,
                 isActive, ledgerVars>>
  /\ UNCHANGED serverVars

PairComplete(p, caller, file) ==
  /\ Free(p)
  /\ LET outcome == [r \in Pair |-> CompleteOutcome(Snapshot(r), caller, file)]
     IN /\ reports' = [r \in Pair |->
                         IF outcome[r] = "OK"
                         THEN [ChangeStatus(reports[r], "completed", caller)
                                 EXCEPT !.afterCleanup = file]
                         ELSE reports[r]]
        /\ completedTasks' = [completedTasks EXCEPT ![caller] = @ + Cardinality(Passed(outcome))]
        /\ assignedReports' = [assignedReports EXCEPT ![caller] = @ \ Passed(outcome)]
        /\ Both("complete", outcome)
  /\ req' = req
  /\ UNCHANGED <<points, completedReports, totalReports, isActive, ledgerVars>>
  /\ UNCHANGED serverVars

PairAward(p, admin, pts) ==
  /\ Free(p)
  /\ LET outcome == [r \in Pair |-> AwardOutcome(Snapshot(r))]
         n == Cardinality(Passed(outcome))
     IN /\ reports' = [r \in Pair |-> IF outcome[r] = "OK"
                                      THEN [reports[r] EXCEPT !.pointsAwarded = pts]
                                      ELSE reports[r]]
        /\ points' = [points EXCEPT ![Citizen] = AddPoints(@, n * pts)]
        /\ completedReports' = [completedReports EXCEPT ![Citizen] = @ + n]
        /\ Both("award", outcome)
  /\ req' = req
  /\ UNCHANGED <<assignedReports, completedTasks, totalReports, isActive, ledgerVars>>
  /\ UNCHANGED serverVars

(* --------------------------- models/Reward ----------------------------- *)

\* isAvailable on a private copy of a reward, at a reading of the clock.
IsAvailable(copy, now) ==
  /\ copy.isActive
  /\ copy.remainingQuantity > 0
  /\ now >= copy.validFrom
  /\ now <= copy.validUntil

(* -------------- POST /api/users/rewards/:rewardId/redeem --------------- *)

\* authenticateToken: req.user is a copy of the caller read by findById.
RedeemAuth(p, u) ==
  /\ Free(p)
  /\ Admit
  /\ req' = [req EXCEPT ![p] = [IdleReq EXCEPT !.kind = "redeem", !.pc = "rd_load",
                                               !.actor = u, !.upts = points[u]]]
  /\ tally' = [tally EXCEPT !.calls = @ + 1,
                            !.open[p] = Arrived(Response("redeem", 0, NoReport, points[u], "none"),
                                                rewardDocs.remainingQuantity,
                                                Len(redemptionDocs))]
  /\ UNCHANGED <<reportVars, points, ledgerVars>>
  /\ UNCHANGED serverVars

\* Reward.findById, the availability and balance checks, deductPoints on req.user.
RedeemLoad(p, now) ==
  /\ req[p].pc = "rd_load"
  /\ IF ~IsAvailable(rewardDocs, now)
     THEN AnsweredWith(p, "REWARD_NOT_AVAILABLE", now)
     ELSE IF req[p].upts < rewardDocs.pointsCost
     THEN AnsweredWith(p, "INSUFFICIENT_POINTS", now)
     ELSE IF ~CanDeduct(req[p].upts, rewardDocs.pointsCost)
     THEN AnsweredWith(p, "REDEEM_ERROR", now)
     ELSE /\ req' = [req EXCEPT ![p].pc = "rd_user", ![p].pts = rewardDocs.pointsCost,
                                ![p].now = now,
                                ![p].rsnap = [remainingQuantity |-> rewardDocs.remainingQuantity,
                                              totalRedeemed |-> rewardDocs.totalRedeemed]]
          /\ tally' = [tally EXCEPT !.open[p] = With(@, now)]
  /\ UNCHANGED <<reportVars, points, ledgerVars>>
  /\ UNCHANGED serverVars

\* req.user's save() takes effect; reward.redeem() asks isAvailable() of the
\* copy again, at a later reading of the clock, and throws if it has become
\* false (the handler's catch answers 500); else it decrements the copy's
\* stock, draws a coupon code and starts to save the reward.
RedeemUser(p, now) ==
  /\ req[p].pc = "rd_user"
  /\ now >= req[p].now
  /\ points' = [points EXCEPT ![req[p].actor] = DeductPoints(req[p].upts, req[p].pts)]
  /\ IF ~IsAvailable([rewardDocs EXCEPT !.remainingQuantity = req[p].rsnap.remainingQuantity],
                     now)
     THEN /\ req' = [req EXCEPT ![p] = IdleReq]
          /\ tally' = [tally EXCEPT !.deducted = @ + req[p].pts,
                                    !.last = [tally.open[p] EXCEPT !.outcome = "REDEEM_ERROR"],
                                    !.open[p] = NoResponse]
     ELSE /\ tally' = [tally EXCEPT !.deducted = @ + req[p].pts]
          /\ \E c \in Codes : req' = [req EXCEPT ![p].pc = "rd_reward", ![p].code = c]
  /\ UNCHANGED <<reportVars, ledgerVars>>
  /\ UNCHANGED serverVars

\* The reward's save() takes effect: remainingQuantity and totalRedeemed are $set.
RedeemReward(p) ==
  /\ req[p].pc = "rd_reward"
  /\ rewardDocs' = [rewardDocs EXCEPT !.remainingQuantity = req[p].rsnap.remainingQuantity - 1,
                                      !.totalRedeemed = req[p].rsnap.totalRedeemed + 1]
  /\ req' = [req EXCEPT ![p].pc = "rd_redemption"]
  /\ UNCHANGED <<reportVars, points, redemptionDocs, rewards, redemptions, tally>>
  /\ UNCHANGED serverVars

\* The unique index on Redemption.generatedCode.
CodeTaken(code) ==
  \E i \in 1..Len(redemptionDocs) : redemptionDocs[i].generatedCode = code

\* remainingPoints of the response: req.user.points - reward.pointsCost,
\* where req.user is the copy deductPoints has already taken the cost from.
RemainingPoints(copyPoints, cost) == copyPoints - cost

\* The redemption's save(): the index refuses a second document with the
\* same code, and the handler's catch answers 500.
RedeemRedemption(p) ==
  /\ req[p].pc = "rd_redemption"
  /\ IF CodeTaken(req[p].code)
     THEN /\ Answered(p, "REDEEM_ERROR")
          /\ UNCHANGED redemptionDocs
     ELSE /\ redemptionDocs' = Append(redemptionDocs,
                 [user |-> req[p].actor, reward |-> RewardId, pointsUsed |-> req[p].pts,
                  generatedCode |-> req[p].code, status |-> "active",
                  expiresAt |-> rewardDocs.validUntil])
          /\ req' = [req EXCEPT ![p] = IdleReq]
          /\ tally' = [tally EXCEPT !.last = [tally.open[p] EXCEPT
                                                !.outcome = "OK",
                                                !.returned = RemainingPoints(
                                                    DeductPoints(req[p].upts, req[p].pts),
                                                    rewardDocs.pointsCost)],
                                    !.open[p] = NoResponse,
                                    !.redeemOk = @ + 1,
                                    !.tookLast = IF req[p].rsnap.remainingQuantity = 1
                                                 THEN @ + 1 ELSE @]
  /\ UNCHANGED <<reportVars, points, rewardDocs, rewards, redemptions>>
  /\ UNCHANGED serverVars

(* ------------------ POST /api/rewards/:id/redeem (array) --------------- *)

\* The checks on the reward object of the rewards array.
MemUnavailable(reward, now) ==
  IF ~reward.isActive THEN "Reward is not active"
  ELSE IF reward.availableQuantity <= 0 THEN "Reward is out of stock"
  ELSE IF now > reward.validUntil THEN "Reward has expired"
  ELSE "pass"

MemInsufficient_NoCheck(balance, reward) == FALSE
MemInsufficient(balance, reward) == balance < reward.pointsRequired

\* rewards.find (404 when the reward is not in the array) and the checks on
\* the reward; User.findById is started.  The
\* handler keeps a reference to the reward object it found.
MemRedeemCheck(p, u, now) ==
  /\ Free(p)
  /\ LET why == IF ~listed THEN "Reward not found" ELSE MemUnavailable(rewards, now)
         arrived == With(Arrived(Response("memRedeem", 0, NoReport, points[u], "none"),
                                 rewards.availableQuantity, Len(redemptions)), now)
     IN IF why # "pass"
        THEN /\ req' = req
             /\ tally' = [tally EXCEPT !.last = [arrived EXCEPT !.outcome = why]]
        ELSE /\ Admit
             /\ req' = [req EXCEPT ![p] = [IdleReq EXCEPT !.kind = "memRedeem",
                                                          !.pc = "mr_user", !.actor = u,
                                                          !.now = now, !.gen = rewards.gen]]
             /\ tally' = [tally EXCEPT !.calls = @ + 1, !.open[p] = arrived]
  /\ UNCHANGED <<reportVars, points, ledgerVars>>
  /\ UNCHANGED serverVars

\* The reward object the handler holds: the one in the array, or the one an
\* admin update has replaced in the meantime (the update changes no price).
Held(p) == [rewards EXCEPT !.gen = req[p].gen]

\* The user is read; the balance check; the redemption is pushed onto the
\* array with a fresh coupon code; the copy's balance is reduced and saved.
MemRedeemUser(p) ==
  /\ req[p].pc = "mr_user"
  /\ LET balance == points[req[p].actor]
         seen == [tally.open[p] EXCEPT !.balance = balance]
     IN IF MemInsufficient(balance, Held(p))
        THEN /\ req' = [req EXCEPT ![p] = IdleReq]
             /\ tally' = [tally EXCEPT !.last = [seen EXCEPT !.outcome = "Insufficient points"],
                                       !.open[p] = NoResponse]
             /\ UNCHANGED redemptions
        ELSE \E c \in Codes :
               /\ redemptions' = Append(redemptions,
                     [userId |-> req[p].actor, rewardId |-> RewardId,
                      pointsUsed |-> Held(p).pointsRequired,
                      couponCode |-> c, isUsed |-> FALSE, usedAt |-> 0,
                      expiresAt |-> req[p].now + RedemptionDays])
               /\ req' = [req EXCEPT ![p].pc = "mr_save", ![p].upts = balance,
                                     ![p].pts = Held(p).pointsRequired, ![p].code = c]
               /\ tally' = [tally EXCEPT !.open[p] = seen]
  /\ UNCHANGED <<reportVars, points, rewardDocs, redemptionDocs, rewards>>
  /\ UNCHANGED serverVars

\* The user's save() takes effect; the stock of the reward object the handler
\* holds is decremented: if an update has replaced the object in the array,
\* the decrement is made on the object that is no longer there.
MemRedeemSave(p) ==
  /\ req[p].pc = "mr_save"
  /\ points' = [points EXCEPT ![req[p].actor] = req[p].upts - Held(p).pointsRequired]
  /\ rewards' = IF req[p].gen = rewards.gen
                THEN [rewards EXCEPT !.availableQuantity = @ - 1]
                ELSE rewards
  /\ req' = [req EXCEPT ![p] = IdleReq]
  /\ tally' = [tally EXCEPT !.last = [tally.open[p] EXCEPT !.outcome = "OK"],
                            !.open[p] = NoResponse,
                            !.deducted = @ + Held(p).pointsRequired,
                            !.memRedeemOk = @ + 1]
  /\ UNCHANGED <<reportVars, rewardDocs, redemptionDocs, redemptions>>
  /\ UNCHANGED serverVars

(* ------------- PUT /api/rewards/redemptions/:id/use (array) ------------ *)

\* The checks of the route on the redemption it found, in the code's order.
UseRefused(redemption, caller, now) ==
  IF redemption.userId # caller /\ caller \notin Admins THEN "Access denied"
  ELSE IF redemption.isUsed THEN "Redemption already used"
  ELSE IF now > redemption.expiresAt THEN "Redemption has expired"
  ELSE "pass"

UseRedemption_Renew(redemption, now) ==
  [redemption EXCEPT !.isUsed = TRUE, !.usedAt = now, !.expiresAt = now + RedemptionDays]

\* redemption.isUsed = true; redemption.usedAt = new Date().
UseRedemption(redemption, now) ==
  [redemption EXCEPT !.isUsed = TRUE, !.usedAt = now]

\* The clock readings around the day a redemption expires.
UseTimes(i) ==
  IF i \in 1..Len(redemptions)
  THEN {redemptions[i].expiresAt - 1, redemptions[i].expiresAt, redemptions[i].expiresAt + 1}
  ELSE {1}

\* The whole handler runs without an await: redemptions.find, the checks, the
\* two assignments, the response.
MarkUsed(p, i, caller, now) ==
  /\ Free(p)
  /\ IF i \notin 1..Len(redemptions)
     THEN /\ tally' = [tally EXCEPT !.last =
                         With(Response("markUsed", i, NoReport, 0, "Redemption not found"), now)]
          /\ UNCHANGED redemptions
     ELSE LET why == UseRefused(redemptions[i], caller, now)
              seen == [NoReport EXCEPT !.status = IF redemptions[i].isUsed
                                                 THEN "used" ELSE "active"]
          IN /\ tally' = [tally EXCEPT !.last =
                            With(Response("markUsed", i, seen, 0,
                                          IF why = "pass" THEN "OK" ELSE why), now)]
             /\ redemptions' = IF why = "pass"
                               THEN [redemptions EXCEPT ![i] = UseRedemption(@, now)]
                               ELSE redemptions
  /\ req' = req
  /\ UNCHANGED <<reportVars, points, rewardDocs, redemptionDocs, rewards>>
  /\ UNCHANGED serverVars

(* --------------------- PUT /api/rewards/:id (array) -------------------- *)

\* The request bodies of an update: any fields at all; here a new
\* availableQuantity, a new isActive, or a validFrom (a field the rewards of
\* the array do not have until a body brings it).
Quantities == (0 - 1)..InitStock
Bodies ==
  {[f \in {"availableQuantity"} |-> q] : q \in Quantities}
    \cup {[f \in {"isActive"} |-> b] : b \in BOOLEAN}
    \cup {[f \in {"validFrom"} |-> RedemptionDays]}

\* {...rewards[rewardIndex], ...req.body}: a new object takes the place of the
\* reward in the array, the body's fields over the old ones.
MemUpdate(p, body) ==
  /\ Free(p)
  /\ Admit
  /\ rewards' = IF ~listed THEN rewards
                ELSE [f \in DOMAIN rewards \cup DOMAIN body |->
                        IF f \in DOMAIN body THEN body[f]
                        ELSE IF f = "gen" THEN rewards.gen + 1
                        ELSE rewards[f]]
  /\ req' = req
  /\ tally' = [tally EXCEPT !.calls = @ + 1,
                            !.last = Response("memUpdate", 0, NoReport, 0,
                                              IF listed THEN "OK" ELSE "Reward not found")]
  /\ UNCHANGED <<reportVars, points, rewardDocs, redemptionDocs, redemptions>>
  /\ UNCHANGED serverVars

(* -------------------- DELETE /api/rewards/:id (array) ------------------ *)

\* The role check, rewards.findIndex (404 when the reward is not in the
\* array) and rewards.splice(rewardIndex, 1): the reward leaves the array; the
\* redemptions array is not looked at.
MemDelete(p, caller) ==
  /\ Free(p)
  /\ Admit
  /\ LET outcome == IF caller \notin Admins THEN "Access denied"
                    ELSE IF ~listed THEN "Reward not found"
                    ELSE "OK"
     IN /\ listed' = (listed /\ outcome # "OK")
        /\ tally' = [tally EXCEPT !.calls = @ + 1,
                                  !.last = Response("memDelete", 0, NoReport, 0, outcome)]
  /\ req' = req
  /\ UNCHANGED <<reportVars, points, ledgerVars, rateLimitStore, clock, reportIds>>

\* rewards.find(r => r._id === redemption.rewardId) of the redemption
\* listings finds a reward.
RewardFound(redemption) == listed /\ redemption.rewardId = RewardId

(* ----------------- models/User: addPoints, deductPoints ---------------- *)

\* The amounts a caller passes to addPoints, deductPoints and the adjust route.
Amounts == (0 - MaxAward)..MaxAward

\* user.addPoints(amount) on a citizen: this.points += amount; save().
AddPointsCall(p, u, amount) ==
  /\ Free(p)
  /\ Admit
  /\ points' = [points EXCEPT ![u] = AddPoints(@, amount)]
  /\ req' = req
  /\ tally' = [tally EXCEPT !.calls = @ + 1,
                            !.last = With(Response("addPoints", 0, NoReport, points[u], "OK"),
                                          amount)]
  /\ UNCHANGED <<reportVars, ledgerVars>>
  /\ UNCHANGED serverVars

\* user.deductPoints(amount) on a citizen: throws unless this.points >= amount;
\* else this.points -= amount; save().
DeductPointsCall(p, u, amount) ==
  /\ Free(p)
  /\ Admit
  /\ req' = req
  /\ IF CanDeduct(points[u], amount)
     THEN /\ points' = [points EXCEPT ![u] = DeductPoints(@, amount)]
          /\ tally' = [tally EXCEPT !.calls = @ + 1,
                                    !.last = With(Response("deductPoints", 0, NoReport,
                                                           points[u], "OK"), amount)]
     ELSE /\ tally' = [tally EXCEPT !.calls = @ + 1,
                                    !.last = With(Response("deductPoints", 0, NoReport,
                                                           points[u], "Error"), amount)]
          /\ UNCHANGED points
  /\ UNCHANGED <<reportVars, ledgerVars>>
  /\ UNCHANGED serverVars

(* ------------------- PUT /api/users/:id/points/adjust ------------------ *)

Operations == {"add", "subtract", "set"}

Max0(n) == IF n > 0 THEN n ELSE 0

\* The switch on the operation: the new balance from the old one.
NewPoints(operation, oldPoints, amount) ==
  CASE operation = "add" -> oldPoints + amount
    [] operation = "subtract" -> Max0(oldPoints - amount)
    [] operation = "set" -> Max0(amount)

\* User.findById, the role check, the switch; user.points = newPoints.
AdjustLoad(p, admin, u, operation, amount) ==
  /\ Free(p)
  /\ IF u \notin Citizens
     THEN /\ req' = req
          /\ tally' = [tally EXCEPT !.last =
                         With(Response("adjust", 0, NoReport, 0, "INVALID_USER_ROLE"), amount)]
     ELSE /\ Admit
          /\ req' = [req EXCEPT ![p] = [IdleReq EXCEPT !.kind = "adjust", !.pc = "ad_save",
                                                       !.actor = u, !.action = operation,
                                                       !.upts = NewPoints(operation, points[u],
                                                                          amount)]]
          /\ tally' = [tally EXCEPT !.calls = @ + 1,
                                    !.open[p] = With(Response("adjust", 0, NoReport,
                                                              points[u], "none"), amount)]
  /\ UNCHANGED <<reportVars, points, ledgerVars>>
  /\ UNCHANGED serverVars

\* user.save() takes effect: points is $set to the new balance.
AdjustSave(p) ==
  /\ req[p].pc = "ad_save"
  /\ points' = [points EXCEPT ![req[p].actor] = req[p].upts]
  /\ Answered(p, "OK")
  /\ UNCHANGED <<reportVars, ledgerVars>>
  /\ UNCHANGED serverVars

(* ---------------------- GET /api/analytics/hotspots -------------------- *)

\* $round of a coordinate multiplied by 100: the nearest hundredth of a
\* degree, a half going to the even neighbour.
Round100(x) ==
  LET q == x \div 10
      r == x % 10
  IN IF r < 5 THEN q
     ELSE IF r > 5 THEN q + 1
     ELSE IF q % 2 = 0 THEN q ELSE q + 1

\* The _id of the $group stage: the cell of a report.
CellOf(doc) == [lat |-> Round100(doc.lat), lng |-> Round100(doc.lng)]

\* The $group stage: the cells that hold a report, and the count of each.
Cells == {CellOf(reports[i]) : i \in DOMAIN reports}
CountOf(cell) == Cardinality({i \in DOMAIN reports : CellOf(reports[i]) = cell})

\* severity: count >= 20 ? 'high' : count >= 10 ? 'medium' : 'low'.
Severity(count) ==
  IF count >= HighFrom THEN "high" ELSE IF count >= MediumFrom THEN "medium" ELSE "low"

\* The cells of a set with the least count.
Lowest(Q, count) == {c \in Q : \A d \in Q : count[c] <= count[d]}

\* $sort by count, descending, then $limit: the sets of n cells that the
\* limit can cut off (cells of equal count come in any order).
RECURSIVE CutOff(_, _, _)
CutOff(Q, n, count) ==
  IF n <= 0 THEN {{}}
  ELSE UNION {{E \cup {c} : E \in CutOff(Q \ {c}, n - 1, count)} : c \in Lowest(Q, count)}

\* parseInt(req.query.minReports) || 5 (a query of 0 stands for a request
\* that leaves the parameter out).
MinReports(query) == IF query = 0 THEN DefaultMinReports ELSE query

\* The whole handler: validation, the aggregation, the map to the response.
GetHotspots(p, admin, query) ==
  /\ Free(p)
  /\ req' = req
  /\ IF query # 0 /\ (query < LeastMinReports \/ query > MostMinReports)
     THEN tally' = [tally EXCEPT !.last =
                      [kind |-> "hotspots", arg |-> query, outcome |-> "Validation failed",
                       hotspots |-> {}]]
     ELSE LET count == [c \in Cells |-> CountOf(c)]
              matched == {c \in Cells : count[c] >= MinReports(query)}
          IN \E cut \in CutOff(matched, Cardinality(matched) - HotspotLimit, count) :
               tally' = [tally EXCEPT !.last =
                  [kind |-> "hotspots", arg |-> query, outcome |-> "OK",
                   hotspots |-> {[cell |-> c, reportCount |-> count[c],
                                  severity |-> Severity(count[c])] : c \in matched \ cut}]]
  /\ UNCHANGED <<reportVars, points, ledgerVars>>
  /\ UNCHANGED serverVars

(* -------------- middleware/auth: sensitiveOperationLimit --------------- *)

\* windowMs, 15 * 60 * 1000 ms, counted in readings of five minutes; the
\* attempts allowed within it.
windowMs == 3
maxAttempts == 5

\* The callers that reach the limiter: change-password runs it behind
\* authenticateToken (req.user is set), login runs it with no req.user.
Callers ==
  {[user |-> "u1", ip |-> "ip1", path |-> "/change-password"],
   [user |-> "none", ip |-> "ip1", path |-> "/login"]}

\* `${userId}_${req.route.path}`, userId the user's _id or else the ip.
KeyOf(caller) ==
  <<IF caller.user # "none" THEN caller.user ELSE caller.ip, "_", caller.path>>
Keys == {KeyOf(caller) : caller \in Callers}

Recent_Keep(userAttempts, now) == userAttempts

\* userAttempts.filter(timestamp => now - timestamp < windowMs)
Recent(userAttempts, now) ==
  SelectSeq(userAttempts, LAMBDA timestamp : now - timestamp < windowMs)

TooMany_Lax(recentAttempts) == Len(recentAttempts) > maxAttempts

\* recentAttempts.length >= maxAttempts
TooMany(recentAttempts) == Len(recentAttempts) >= maxAttempts

\* The middleware, which runs without a break: 429 when the key has used up
\* its attempts, else the reading is pushed, the list is stored and next()
\* is called.
SensitiveOperationLimit(p, caller) ==
  /\ Free(p)
  /\ LET key == KeyOf(caller)
         now == clock
         userAttempts == rateLimitStore[key]
         recentAttempts == Recent(userAttempts, now)
         limited == TooMany(recentAttempts)
         stored == IF limited THEN rateLimitStore
                   ELSE [rateLimitStore EXCEPT ![key] = Append(recentAttempts, now)]
     IN /\ rateLimitStore' = stored
        /\ tally' = [tally EXCEPT
                       !.limit = [key |-> key, now |-> now,
                                  outcome |-> IF limited THEN "RATE_LIMITED" ELSE "NEXT",
                                  before |-> userAttempts, after |-> stored[key],
                                  afterRejection |-> /\ tally.limit.key = key
                                                     /\ tally.limit.outcome = "RATE_LIMITED"],
                       !.log[key] = IF limited THEN @ ELSE Append(@, now)]
  /\ UNCHANGED <<reportVars, points, ledgerVars, req, clock, reportIds, listed>>

\* Date.now() moves on.
Tick ==
  /\ clock < MaxClock
  /\ clock' = clock + 1
  /\ UNCHANGED <<reportVars, points, ledgerVars, req, rateLimitStore, reportIds, listed, tally>>

(* ---------------------------- specifications --------------------------- *)

\* The server has just started: no rate-limit store yet (an absent key reads
\* as no attempts), the clock at its first reading, no reportId handed out,
\* the reward in the array.
InitServer ==
  /\ rateLimitStore = [key \in Keys |-> <<>>]
  /\ clock = 0
  /\ reportIds = <<>>
  /\ listed = TRUE

NoTally ==
  [calls |-> 0, last |-> NoResponse, open |-> [p \in Slots |-> NoResponse],
   added |-> 0, deducted |-> 0, redeemOk |-> 0, tookLast |-> 0, memRedeemOk |-> 0,
   credits |-> [r \in Reports |-> 0], awardOk |-> [r \in Reports |-> 0],
   limit |-> [key |-> <<>>, now |-> 0, outcome |-> "none", before |-> <<>>,
              after |-> <<>>, afterRejection |-> FALSE],
   log |-> [key \in Keys |-> <<>>]]

\* The users, one stored reward and one reward of the array with their full
\* stock, no redemption, no request in flight.
InitLedger ==
  /\ points = [u \in Citizens |-> InitPoints]
  /\ completedReports = [u \in Citizens |-> 0]
  /\ assignedReports = [k \in Collectors |-> {}]
  /\ completedTasks = [k \in Collectors |-> 0]
  /\ totalReports = [u \in Citizens |-> Cardinality(Stored)]
  /\ isActive = [k \in Collectors |-> TRUE]
  /\ rewardDocs = [isActive |-> TRUE, pointsCost |-> RewardCost,
                   totalQuantity |-> InitStock, remainingQuantity |-> InitStock,
                   totalRedeemed |-> 0, validFrom |-> ValidFrom, validUntil |-> ValidUntil]
  /\ redemptionDocs = <<>>
  /\ rewards = [isActive |-> TRUE, pointsRequired |-> RewardCost,
                availableQuantity |-> InitStock, validUntil |-> RedemptionDays, gen |-> 0]
  /\ redemptions = <<>>
  /\ req = [p \in Slots |-> IdleReq]
  /\ InitServer
  /\ tally = NoTally

\* No report is submitted yet.
Init ==
  /\ reports = [r \in Reports |-> NoDocument]
  /\ InitLedger

\* Every report is completed and not yet awarded.
InitCompleted ==
  /\ reports = [r \in Reports |-> CompletedReport]
  /\ InitLedger

Begin(p) ==
  \/ \E r \in Reports, u \in Citizens, input \in SubmitInputs : SubmitSave(p, r, u, input)
  \/ \E r \in Stored, a \in Admins, action \in {"approve", "reject"} :
       VerifyLoad(p, r, a, action)
  \/ \E r \in Stored, a \in Admins, k \in Collectors \cup Citizens :
       AssignLoad(p, r, a, k)
  \/ \E r \in Stored, k \in Collectors : StartLoad(p, r, k)
  \/ \E r \in Stored, k \in Collectors, file \in BOOLEAN : CompleteLoad(p, r, k, file)
  \/ \E r \in Stored, a \in Admins, pts \in 1..MaxAward : AwardLoad(p, r, a, pts)

Step(p) ==
  \/ SubmitUser(p)
  \/ VerifySave(p)
  \/ AssignSave(p) \/ AssignUser(p)
  \/ StartSave(p)
  \/ CompleteSave(p) \/ CompleteUser(p)
  \/ AwardUser(p) \/ AwardReport(p) \/ AwardCount(p)

\* Requests of the report routes arrive at any time and interleave.
Next == \E p \in Slots : Begin(p) \/ Step(p)
Spec == Init /\ [][Next]_vars

\* The same requests, each answered before the next one arrives.
NextSeq == \E p \in Slots : (AllIdle /\ Begin(p)) \/ Step(p)
SpecSeq == Init /\ [][NextSeq]_vars

\* The report routes and the activation and deactivation of collectors by an
\* admin, each request answered before the next one arrives.
NextStaff ==
  \E p \in Slots :
    \/ AllIdle /\ Begin(p)
    \/ AllIdle /\ \E a \in Admins, k \in Collectors, active \in BOOLEAN :
                     SetStatus(p, a, k, active)
    \/ Step(p)
SpecStaff == Init /\ [][NextStaff]_vars

BeginLedger(p) ==
  \/ \E r \in Reports, a \in Admins, pts \in 1..MaxAward : AwardLoad(p, r, a, pts)
  \/ \E u \in Citizens : RedeemAuth(p, u)

StepLedger(p) ==
  \/ AwardUser(p) \/ AwardReport(p) \/ AwardCount(p)
  \/ \E now \in StoredTimes : RedeemLoad(p, now) \/ RedeemUser(p, now)
  \/ RedeemReward(p) \/ RedeemRedemption(p)

\* Point awards and redemptions of the stored reward, arriving at any time
\* and interleaving.
NextLedger == \E p \in Slots : BeginLedger(p) \/ StepLedger(p)
SpecLedger == InitCompleted /\ [][NextLedger]_vars

BeginArray(p) == \E u \in Citizens, now \in Times : MemRedeemCheck(p, u, now)
StepArray(p) == MemRedeemUser(p) \/ MemRedeemSave(p)

\* Point awards and redemptions on both redeem routes, each request answered
\* before the next one arrives.
NextLedgerSeq ==
  \E p \in Slots : \/ AllIdle /\ (BeginLedger(p) \/ BeginArray(p))
                   \/ StepLedger(p) \/ StepArray(p)
SpecLedgerSeq == InitCompleted /\ [][NextLedgerSeq]_vars

\* The rewards array: redemptions and admin updates of the reward, arriving at
\* any time and interleaving.
NextCatalogue ==
  \E p \in Slots : \/ BeginArray(p) \/ StepArray(p)
                   \/ \E body \in Bodies : MemUpdate(p, body)
SpecCatalogue == InitCompleted /\ [][NextCatalogue]_vars

StepRedeem(p) ==
  \/ \E now \in StoredTimes : RedeemLoad(p, now) \/ RedeemUser(p, now)
  \/ RedeemReward(p) \/ RedeemRedemption(p)

\* Calls of addPoints and deductPoints on a citizen with any amount, one
\* after the other.
NextPoints ==
  \E p \in Slots, u \in Citizens, amount \in Amounts :
    AddPointsCall(p, u, amount) \/ DeductPointsCall(p, u, amount)
SpecPoints == InitCompleted /\ [][NextPoints]_vars

\* Admin adjustments of a user's points, each request answered before the
\* next one arrives.
NextAdjust ==
  \E p \in Slots :
    \/ AllIdle /\ \E a \in Admins, u \in Citizens \cup Collectors,
                      operation \in Operations, amount \in Amounts :
                    AdjustLoad(p, a, u, operation, amount)
    \/ AdjustSave(p)
SpecAdjust == InitCompleted /\ [][NextAdjust]_vars

\* The report counts of the cells in the collections looked at, and the
\* minReports a query carries (0: the parameter is left out).
CellCounts == {1, MediumFrom - 1, MediumFrom, HighFrom - 1, HighFrom}
Queries == {0, 1, LeastMinReports, MediumFrom, HighFrom + 1}

\* The ids of a collection of reports laid out over k cells: the first cell
\* holds n reports, every other cell two, and one more if it is an odd one.
Layout(k, n) ==
  {<<1, j>> : j \in 1..n} \cup {<<i, j>> : i \in 2..k, j \in 1..LeastMinReports}
    \cup {<<i, LeastMinReports + 1>> : i \in {h \in 2..k : h % 2 = 1}}

\* The j-th report of cell i lies within four thousandths of a degree of
\* the cell's centre.
Placed(i, j) ==
  [status |-> "submitted",
   lat |-> 10 * i + 4 * ((j % 3) - 1),
   lng |-> (0 - 10) * i + 4 * (((j + 1) % 3) - 1)]

\* A collection of reports spread over up to MaxCells cells.
InitHotspots ==
  /\ \E k \in 1..MaxCells, n \in CellCounts :
       reports = [id \in Layout(k, n) |-> Placed(id[1], id[2])]
  /\ points = [u \in Citizens |-> InitPoints]
  /\ completedReports = [u \in Citizens |-> 0]
  /\ assignedReports = [k \in Collectors |-> {}]
  /\ completedTasks = [k \in Collectors |-> 0]
  /\ totalReports = [u \in Citizens |-> Cardinality(DOMAIN reports)]
  /\ isActive = [k \in Collectors |-> TRUE]
  /\ rewardDocs = [isActive |-> TRUE, pointsCost |-> RewardCost,
                   totalQuantity |-> InitStock, remainingQuantity |-> InitStock,
                   totalRedeemed |-> 0, validFrom |-> ValidFrom, validUntil |-> ValidUntil]
  /\ redemptionDocs = <<>>
  /\ rewards = [isActive |-> TRUE, pointsRequired |-> RewardCost,
                availableQuantity |-> InitStock, validUntil |-> RedemptionDays, gen |-> 0]
  /\ redemptions = <<>>
  /\ req = [p \in Slots |-> IdleReq]
  /\ InitServer
  /\ tally = NoTally

\* Hotspot queries of an admin over a collection of reports.
NextHotspots == \E p \in Slots, a \in Admins, query \in Queries : GetHotspots(p, a, query)
SpecHotspots == InitHotspots /\ [][NextHotspots]_vars

\* A report that collector k1 started at a reading of the clock.
StartedReport(startedAt) ==
  [status |-> "in_progress",
   statusHistory |-> << [status |-> "verified", changedBy |-> "a1", changedAt |-> 0],
                        [status |-> "assigned", changedBy |-> "a1", changedAt |-> 0],
                        [status |-> "in_progress", changedBy |-> "k1",
                         changedAt |-> startedAt] >>,
   assignedTo |-> "k1", verifiedBy |-> "a1", pointsAwarded |-> 0,
   mlClassification |-> Unclassified,
   descriptionLength |-> MinDescription, lat |-> 0, lng |-> 0, image |-> TRUE,
   afterCleanup |-> FALSE, actualCleanupTime |-> 0]

InitStarted ==
  /\ \E startedAt \in 0..MaxStart : reports = [r \in Reports |-> StartedReport(startedAt)]
  /\ points = [u \in Citizens |-> InitPoints]
  /\ completedReports = [u \in Citizens |-> 0]
  /\ assignedReports = [k \in Collectors |-> IF k = "k1" THEN Reports ELSE {}]
  /\ completedTasks = [k \in Collectors |-> 0]
  /\ totalReports = [u \in Citizens |-> Cardinality(Reports)]
  /\ isActive = [k \in Collectors |-> TRUE]
  /\ rewardDocs = [isActive |-> TRUE, pointsCost |-> RewardCost,
                   totalQuantity |-> InitStock, remainingQuantity |-> InitStock,
                   totalRedeemed |-> 0, validFrom |-> ValidFrom, validUntil |-> ValidUntil]
  /\ redemptionDocs = <<>>
  /\ rewards = [isActive |-> TRUE, pointsRequired |-> RewardCost,
                availableQuantity |-> InitStock, validUntil |-> RedemptionDays, gen |-> 0]
  /\ redemptions = <<>>
  /\ req = [p \in Slots |-> IdleReq]
  /\ InitServer
  /\ tally = NoTally

\* Complete requests on a started report, at clock readings up to two
\* minutes after the start.
NextCleanup ==
  \E p \in Slots, r \in Reports, k \in Collectors, file \in BOOLEAN,
     now \in 0..(MaxStart + 2 * Minute), later \in 0..(MaxStart + 2 * Minute + 1) :
    CompleteStamp(p, r, k, file, now, later)
SpecCleanup == InitStarted /\ [][NextCleanup]_vars

\* Two submitted reports that differ in nothing but their mlClassification.
InitPair ==
  /\ \E ml \in [Pair -> Classifications] :
       /\ ml[1] # ml[2]
       /\ reports = [r \in Pair |-> [NewReport EXCEPT !.mlClassification = ml[r]]]
  /\ points = [u \in Citizens |-> InitPoints]
  /\ completedReports = [u \in Citizens |-> 0]
  /\ assignedReports = [k \in Collectors |-> {}]
  /\ completedTasks = [k \in Collectors |-> 0]
  /\ totalReports = [u \in Citizens |-> Cardinality(Pair)]
  /\ isActive = [k \in Collectors |-> TRUE]
  /\ rewardDocs = [isActive |-> TRUE, pointsCost |-> RewardCost,
                   totalQuantity |-> InitStock, remainingQuantity |-> InitStock,
                   totalRedeemed |-> 0, validFrom |-> ValidFrom, validUntil |-> ValidUntil]
  /\ redemptionDocs = <<>>
  /\ rewards = [isActive |-> TRUE, pointsRequired |-> RewardCost,
                availableQuantity |-> InitStock, validUntil |-> RedemptionDays, gen |-> 0]
  /\ redemptions = <<>>
  /\ req = [p \in Slots |-> IdleReq]
  /\ InitServer
  /\ tally = NoTally

\* Every call of the report routes is made for both reports of the pair,
\* one call after the other.
NextPair ==
  \E p \in Slots :
    \/ \E a \in Admins, action \in {"approve", "reject"} : PairVerify(p, a, action)
    \/ \E a \in Admins, k \in Collectors \cup Citizens : PairAssign(p, a, k)
    \/ \E k \in Collectors : PairStart(p, k)
    \/ \E k \in Collectors, file \in BOOLEAN : PairComplete(p, k, file)
    \/ \E a \in Admins, pts \in 1..MaxAward : PairAward(p, a, pts)
SpecPair == InitPair /\ [][NextPair]_vars

\* Requests to login and change-password as the clock moves on.
NextLimit ==
  \/ \E p \in Slots, caller \in Callers : SensitiveOperationLimit(p, caller)
  \/ Tick
SpecLimit == Init /\ [][NextLimit]_vars

\* Redemptions of the array's reward, admin updates and deletions of it,
\* each request answered before the next one arrives.
NextShelf ==
  \E p \in Slots :
    \/ AllIdle /\ BeginArray(p)
    \/ AllIdle /\ \E body \in Bodies : MemUpdate(p, body)
    \/ AllIdle /\ \E caller \in Admins \cup Citizens : MemDelete(p, caller)
    \/ StepArray(p)
SpecShelf == InitCompleted /\ [][NextShelf]_vars

\* Submit requests arriving at any time and interleaving, seen from the
\* reportId index of the collection.
NextSubmit ==
  \E p \in Slots : \/ \E u \in Citizens : SubmitCount(p, u)
                   \/ SubmitInsert(p)
                   \/ SubmitUser(p)
SpecSubmit == Init /\ [][NextSubmit]_vars

BeginUse(p) ==
  \E i \in 1..(Len(redemptions) + 1), caller \in Citizens \cup Collectors \cup Admins :
    \E now \in UseTimes(i) : MarkUsed(p, i, caller, now)

\* Redemptions on both routes, the use of coupons and admin updates of the
\* array's reward, each request answered before the next one arrives.
NextRedemptions ==
  \E p \in Slots : \/ AllIdle /\ \E u \in Citizens : RedeemAuth(p, u)
                   \/ AllIdle /\ (BeginArray(p) \/ BeginUse(p))
                   \/ AllIdle /\ \E body \in Bodies : MemUpdate(p, body)
                   \/ StepRedeem(p) \/ StepArray(p)
SpecRedemptions == InitCompleted /\ [][NextRedemptions]_vars

(* ------------------------------- claims -------------------------------- *)

\* The statuses a report may move to from a status (the lifecycle's graph).
Follows(status) ==
  CASE status = "submitted" -> {"verified", "rejected"}
    [] status = "verified" -> {"assigned"}
    [] status = "assigned" -> {"in_progress"}
    [] status = "in_progress" -> {"completed"}
    [] OTHER -> {}

Terminal == {"rejected", "completed"}

\* The history entries of a report that record one of the given statuses.
Entries(r, statuses) ==
  {i \in 1..Len(reports[r].statusHistory) : reports[r].statusHistory[i].status \in statuses}

RECURSIVE SumAwarded(_)
SumAwarded(S) ==
  IF S = {} THEN 0
  ELSE LET r == CHOOSE x \in S : TRUE
       IN reports[r].pointsAwarded + SumAwarded(S \ {r})

\* C1: of the redeem requests that find a reward with one unit left, at most
\* one is answered with success, and the stock never goes below zero.
C1_LastUnitOneWinner ==
  /\ tally.tookLast <= 1
  /\ rewardDocs.remainingQuantity >= 0

\* C2: once every request is answered, the balance is the initial balance
\* plus every addition made minus every deduction made, and it is never
\* negative.
C2_BalanceSerializes ==
  /\ points[Citizen] >= 0
  /\ AllIdle => points[Citizen] = InitPoints + tally.added - tally.deducted

\* C3: of the transitions requested on a report from one status only one
\* takes effect: its history holds at most one verify decision and at most
\* one assignment.
C3_OneTransitionWins ==
  \A r \in Reports :
    /\ Cardinality(Entries(r, {"verified", "rejected"})) <= 1
    /\ Cardinality(Entries(r, {"assigned"})) <= 1

\* C4: at most one award-points request per report is answered with success,
\* and the citizen is credited for a report at most once.
C4_AwardAtMostOnce ==
  \A r \in Reports : tally.awardOk[r] <= 1 /\ tally.credits[r] <= 1

\* C5: the statuses recorded in a report's statusHistory follow the edges of
\* the lifecycle, one after the other, and no status is recorded twice.
C5_HistoryIsPath ==
  \A r \in Reports :
    LET h == reports[r].statusHistory
    IN /\ \A i \in 1..(Len(h) - 1) : h[i + 1].status \in Follows(h[i].status)
       /\ \A i, j \in 1..Len(h) : i # j => h[i].status # h[j].status

\* C6: a rejected or completed report keeps its status, and a verify, assign,
\* start or complete request that finds the report rejected or completed is
\* refused for the report's status (INVALID_STATUS), unless the caller is a
\* collector the report is assigned to someone else than (ACCESS_DENIED).
C6_TerminalIsFinal ==
  [][/\ \A r \in Reports :
          reports[r].status \in Terminal => reports'[r].status = reports[r].status
     /\ (/\ tally'.last.kind \in {"verify", "assign", "start", "complete"}
         /\ tally'.last.status \in Terminal)
          => tally'.last.outcome \in {"INVALID_STATUS", "ACCESS_DENIED"}]_vars

\* C7: of the award-points requests made one after the other on a completed
\* report the first succeeds and every later one is answered
\* POINTS_ALREADY_AWARDED and changes nothing; the balance has then grown by
\* exactly the points awarded, which the report records (redemptions made in
\* between take their cost off the balance).
C7_AwardTwice ==
  /\ \A r \in Reports : tally.awardOk[r] <= 1
  /\ \A r \in Reports : tally.awardOk[r] = 1 => reports[r].pointsAwarded \in 1..MaxAward
  /\ AllIdle => points[Citizen] = InitPoints + SumAwarded(Reports) - tally.deducted
  /\ (AllIdle /\ tally.last.kind = "award") =>
       /\ (tally.last.status = "completed" /\ tally.last.pointsAwarded = 0)
            => /\ tally.last.outcome = "OK"
               /\ points[Citizen] = tally.last.balance + reports[tally.last.rid].pointsAwarded
       /\ tally.last.pointsAwarded > 0
            => /\ tally.last.outcome = "POINTS_ALREADY_AWARDED"
               /\ reports[tally.last.rid].pointsAwarded = tally.last.pointsAwarded
               /\ points[Citizen] = tally.last.balance

\* C7's case: a second award request was refused after a first one succeeded.
C7_Witness ==
  /\ AllIdle
  /\ tally.last.kind = "award"
  /\ tally.last.outcome = "POINTS_ALREADY_AWARDED"
  /\ tally.awardOk[tally.last.rid] = 1
  /\ points[Citizen] = InitPoints + reports[tally.last.rid].pointsAwarded

\* C8: the citizen is never credited for a report whose pointsAwarded is
\* still 0.
C8_AwardAllOrNothing ==
  \A r \in Reports : tally.credits[r] > 0 => reports[r].pointsAwarded > 0

C10_StockConservation ==
  AllIdle =>
    /\ rewardDocs.totalQuantity - rewardDocs.remainingQuantity = Len(redemptionDocs)
    /\ rewardDocs.remainingQuantity >= 0
    /\ InitStock - rewards.availableQuantity = Len(redemptions)
    /\ rewards.availableQuantity >= 0

\* C11: with requests made one after the other, a redeem that is answered with
\* an error leaves the caller's balance, the reward's stock and the number of
\* redemptions as they were when it arrived, and points are only ever
\* deducted together with a redemption.
C11_RedeemAllOrNothing ==
  AllIdle =>
    /\ (tally.last.kind = "redeem" /\ tally.last.outcome # "OK") =>
         /\ points[Citizen] = tally.last.balance
         /\ rewardDocs.remainingQuantity = tally.last.stock
         /\ Len(redemptionDocs) = tally.last.count
    /\ (tally.last.kind = "memRedeem" /\ tally.last.outcome # "OK") =>
         /\ points[Citizen] = tally.last.balance
         /\ rewards.availableQuantity = tally.last.stock
         /\ Len(redemptions) = tally.last.count
    /\ tally.deducted = RewardCost * (Len(redemptionDocs) + Len(redemptions))

\* C12: with requests made one after the other, a redeem that is answered
\* with success has taken exactly one unit of the reward's stock and the
\* reward's cost off the caller's balance, and has added exactly one
\* redemption, which is active (not used), records the cost as pointsUsed and
\* expires when the reward does.
C12_RedeemEffect ==
  AllIdle =>
    /\ (tally.last.kind = "redeem" /\ tally.last.outcome = "OK") =>
         /\ rewardDocs.remainingQuantity = tally.last.stock - 1
         /\ points[Citizen] = tally.last.balance - rewardDocs.pointsCost
         /\ Len(redemptionDocs) = tally.last.count + 1
         /\ LET made == redemptionDocs[Len(redemptionDocs)]
            IN /\ made.status = "active"
               /\ made.pointsUsed = rewardDocs.pointsCost
               /\ made.expiresAt = rewardDocs.validUntil
    /\ (tally.last.kind = "memRedeem" /\ tally.last.outcome = "OK") =>
         /\ rewards.availableQuantity = tally.last.stock - 1
         /\ points[Citizen] = tally.last.balance - rewards.pointsRequired
         /\ Len(redemptions) = tally.last.count + 1
         /\ LET made == redemptions[Len(redemptions)]
            IN /\ ~made.isUsed
               /\ made.pointsUsed = rewards.pointsRequired
               /\ made.expiresAt = rewards.validUntil

\* C13: the stored reward's remainingQuantity stays between 0 and its
\* totalQuantity, and the availableQuantity of the reward of the array is
\* never negative.
C13_StockInRange ==
  /\ rewardDocs.remainingQuantity >= 0
  /\ rewardDocs.remainingQuantity <= rewardDocs.totalQuantity
  /\ rewards.availableQuantity >= 0

\* The statuses recorded in a report's history, in order.
Statuses(r) == [i \in 1..Len(reports[r].statusHistory) |-> reports[r].statusHistory[i].status]

\* C14: a report has an assignedTo only while its status is assigned,
\* in_progress or completed.
C14_AssignedToOnlyWhenAssigned ==
  \A r \in Reports :
    reports[r].assignedTo # "none"
      => reports[r].status \in {"assigned", "in_progress", "completed"}

\* C15: a report's pointsAwarded is nonzero only while its status is
\* completed, and no step changes a pointsAwarded that is nonzero.
C15_PointsAwardedFinal ==
  [][\A r \in Reports :
       /\ reports'[r].pointsAwarded # 0 => reports'[r].status = "completed"
       /\ reports[r].pointsAwarded # 0
            => reports'[r].pointsAwarded = reports[r].pointsAwarded]_vars

\* C16: every step leaves the statusHistory of a stored report as it is or
\* appends exactly one entry to it, also when requests on the report overlap.
C16_HistoryAppendOnly ==
  [][\A r \in Stored :
       LET h == reports[r].statusHistory
           g == reports'[r].statusHistory
       IN \/ g = h
          \/ Len(g) = Len(h) + 1 /\ SubSeq(g, 1, Len(h)) = h]_vars

\* C16's case: two overlapping verify requests have both appended their entry.
C16_Witness ==
  \E r \in Reports :
    /\ Len(reports[r].statusHistory) >= 2
    /\ reports[r].statusHistory[1].status \in {"verified", "rejected"}
    /\ reports[r].statusHistory[2].status \in {"verified", "rejected"}

\* C17: after submit, verify(approve), assign, start, complete and
\* award-points, made one after the other, the report is completed, its
\* pointsAwarded is the amount by which the citizen's balance has grown, and
\* its history reads submitted, verified, assigned, in_progress, completed.
C17_FullLifecycle ==
  (AllIdle /\ tally.last.kind = "award" /\ tally.last.outcome = "OK") =>
    LET r == tally.last.rid
    IN /\ reports[r].status = "completed"
       /\ reports[r].pointsAwarded = points[Citizen] - tally.last.balance
       /\ Statuses(r) = <<"submitted", "verified", "assigned", "in_progress", "completed">>

\* The status each lifecycle operation requires of the report.
Required(kind) ==
  CASE kind = "verify" -> "submitted"
    [] kind = "assign" -> "verified"
    [] kind = "start" -> "assigned"
    [] kind = "complete" -> "in_progress"

\* C18: with requests made one after the other, a verify, assign, start or
\* complete request that finds the report in another status than the one it
\* requires is answered with a typed refusal (INVALID_STATUS, or ACCESS_DENIED
\* to a collector the report is not assigned to), never with an internal
\* error, and the report keeps its status.
C18_TypedRefusal ==
  (/\ AllIdle
   /\ tally.last.kind \in {"verify", "assign", "start", "complete"}
   /\ tally.last.status # Required(tally.last.kind))
    => /\ tally.last.outcome \in {"INVALID_STATUS", "ACCESS_DENIED"}
       /\ reports[tally.last.rid].status = tally.last.status

\* C19: with requests made one after the other, an assign that is answered
\* with success found the report verified and has assigned it to an active
\* collector; an assign that is refused leaves the report's status as it was.
C19_AssignToActiveCollector ==
  (AllIdle /\ tally.last.kind = "assign") =>
    LET r == tally.last.rid
    IN /\ tally.last.outcome = "OK" =>
            /\ tally.last.status = "verified"
            /\ reports[r].assignedTo \in Collectors
            /\ isActive[reports[r].assignedTo]
       /\ tally.last.outcome # "OK" => reports[r].status = tally.last.status

\* C20: the in_progress and completed entries of a report's history are
\* recorded by the collector stored in its assignedTo.
C20_AssignedCollectorActs ==
  \A r \in Reports :
    \A i \in Entries(r, {"in_progress", "completed"}) :
      reports[r].statusHistory[i].changedBy = reports[r].assignedTo

\* C21: a coupon is marked used exactly when it is still active and the clock
\* is strictly before expiresAt (at expiresAt itself the request fails); a
\* success records usedAt, and a request on a used coupon changes nothing.
C21_UseBeforeExpiry ==
  (AllIdle /\ tally.last.kind = "markUsed" /\ tally.last.rid \in 1..Len(redemptions)
     /\ tally.last.outcome # "Access denied")
    => LET redemption == redemptions[tally.last.rid]
       IN /\ tally.last.outcome = "OK"
               <=> (tally.last.status = "active" /\ tally.last.arg < redemption.expiresAt)
          /\ tally.last.outcome = "OK"
               => (redemption.isUsed /\ redemption.usedAt = tally.last.arg)
          /\ tally.last.status = "used" => tally.last.outcome = "Redemption already used"

\* C22: no two redemptions carry the same coupon code, and no redeem request
\* fails because the code it drew was taken.
C22_CodesDistinct ==
  /\ \A i, j \in 1..Len(redemptions) :
       i # j => redemptions[i].couponCode # redemptions[j].couponCode
  /\ \A i, j \in 1..Len(redemptionDocs) :
       i # j => redemptionDocs[i].generatedCode # redemptionDocs[j].generatedCode
  /\ (AllIdle /\ tally.last.kind = "redeem") => tally.last.outcome # "REDEEM_ERROR"

C25_CompleteNeedsImage ==
  /\ (AllIdle /\ tally.last.kind = "complete" /\ tally.last.outcome = "NO_AFTER_IMAGE")
       => LET doc == reports[tally.last.rid]
          IN /\ doc.status = "in_progress"
             /\ doc.statusHistory[Len(doc.statusHistory)].status = "in_progress"
             /\ ~doc.afterCleanup
  /\ \A r \in Stored : reports[r].status = "completed" => reports[r].afterCleanup

\* The assigned collector asked to complete a started report without an image.
C25_Witness ==
  /\ AllIdle
  /\ tally.last.kind = "complete" /\ tally.last.outcome = "NO_AFTER_IMAGE"
  /\ reports[tally.last.rid].status = "in_progress"

\* The day from which the array's reward is valid: its validFrom, or the
\* start of the server while it has none.
MemValidFrom == IF "validFrom" \in DOMAIN rewards THEN rewards.validFrom ELSE 0

\* C26: each redeem route lets a reward pass its availability check exactly
\* when the reward is active, has stock left and the clock is within
\* validFrom..validUntil.
C26_AcceptedIffAvailable ==
  /\ (AllIdle /\ tally.last.kind = "redeem")
       => (tally.last.outcome # "REWARD_NOT_AVAILABLE"
             <=> /\ rewardDocs.isActive
                 /\ tally.last.stock > 0
                 /\ rewardDocs.validFrom <= tally.last.arg
                 /\ tally.last.arg <= rewardDocs.validUntil)
  /\ (AllIdle /\ tally.last.kind = "memRedeem")
       => (tally.last.outcome \notin {"Reward is not active", "Reward is out of stock",
                                      "Reward has expired"}
             <=> /\ rewards.isActive
                 /\ tally.last.stock > 0
                 /\ MemValidFrom <= tally.last.arg
                 /\ tally.last.arg <= rewards.validUntil)

\* C27: addPoints and deductPoints refuse an amount that is zero or negative
\* and leave the balance as it was.
C27_AmountPositive ==
  (tally.last.kind \in {"addPoints", "deductPoints"} /\ tally.last.arg <= 0)
    => (tally.last.outcome # "OK" /\ points[Citizen] = tally.last.balance)

\* C28: after an admin adjustment, whatever the operation and the integer
\* passed, the user's balance is not negative.
C28_AdjustNonNegative ==
  (AllIdle /\ tally.last.kind = "adjust" /\ tally.last.outcome = "OK")
    => points[Citizen] >= 0

\* C29: the hotspots returned are exactly the cells (latitude and longitude
\* rounded to two decimals) that hold at least minReports reports, each with
\* its count and tagged low below 10, medium from 10 and high from 20.
C29_HotspotCells ==
  (tally.last.kind = "hotspots" /\ tally.last.outcome = "OK")
    => tally.last.hotspots =
         {[cell |-> c, reportCount |-> CountOf(c),
           severity |-> IF CountOf(c) < 10 THEN "low"
                        ELSE IF CountOf(c) < 20 THEN "medium" ELSE "high"] :
            c \in {d \in Cells : CountOf(d) >= MinReports(tally.last.arg)}}

\* C30: on a completed report, actualCleanupTime is the number of minutes
\* from the changedAt of the in_progress entry to the changedAt of the
\* completed entry, and it is not negative.
C30_CleanupTime ==
  \A r \in Reports :
    reports[r].status = "completed"
      => LET history == reports[r].statusHistory
             started == history[CHOOSE i \in 1..Len(history) :
                                  history[i].status = "in_progress"].changedAt
             completed == history[CHOOSE i \in 1..Len(history) :
                                    history[i].status = "completed"].changedAt
         IN /\ reports[r].actualCleanupTime
                 = (2 * (completed - started) + Minute) \div (2 * Minute)
            /\ reports[r].actualCleanupTime >= 0

\* C31: two reports that differ only in their mlClassification get the same
\* answer to every call and stay alike in status, assignedTo and
\* pointsAwarded (and in their history), whatever the sequence of calls.
C31_ClassificationNeverGates ==
  /\ tally.last.kind \in {"verify", "assign", "start", "complete", "award"}
       => tally.last.outcome[1] = tally.last.outcome[2]
  /\ reports[1].status = reports[2].status
  /\ reports[1].assignedTo = reports[2].assignedTo
  /\ reports[1].pointsAwarded = reports[2].pointsAwarded
  /\ reports[1].statusHistory = reports[2].statusHistory

\* Both reports of the pair went through the whole lifecycle and were
\* awarded points, and their annotations differ.
C31_Witness ==
  /\ tally.last.kind = "award"
  /\ tally.last.outcome[1] = "OK"
  /\ reports[1].pointsAwarded > 0 /\ reports[2].pointsAwarded > 0
  /\ reports[1].mlClassification # reports[2].mlClassification

\* C32: the citizenPoints a successful award returns is the citizen's stored
\* balance after the award: the balance before the call plus the points.
C32_CitizenPointsReturned ==
  (AllIdle /\ tally.last.kind = "award" /\ tally.last.outcome = "OK")
    => /\ tally.last.returned = points[Citizen]
       /\ tally.last.returned = tally.last.balance + reports[tally.last.rid].pointsAwarded

\* C33: the remainingPoints a successful redeem returns is the user's stored
\* balance after the redemption: the balance before the call minus the cost.
C33_RemainingPointsReturned ==
  (AllIdle /\ tally.last.kind = "redeem" /\ tally.last.outcome = "OK")
    => /\ tally.last.returned = points[Citizen]
       /\ tally.last.returned = tally.last.balance - rewardDocs.pointsCost

\* The admitted requests among times that lie in the readings from..to.
Within(times, from, to) ==
  Cardinality({i \in DOMAIN times : from <= times[i] /\ times[i] <= to})
\* The requests of the last request's key admitted before it arrived.
AdmittedBefore ==
  LET admitted == tally.log[tally.limit.key]
  IN IF tally.limit.outcome = "NEXT" THEN SubSeq(admitted, 1, Len(admitted) - 1)
     ELSE admitted

\* C34: no key has more than 5 requests admitted within any 15 minutes; a
\* request is answered 429 exactly when 5 admitted requests of its own key lie
\* within the 15 minutes before it (whatever the other keys did), and a
\* request answered 429 is not recorded.
C34_FivePerWindow ==
  /\ \A key \in Keys, t \in 0..clock :
       Within(tally.log[key], t, t + windowMs - 1) <= maxAttempts
  /\ tally.limit.key \in Keys =>
       /\ tally.limit.outcome = "RATE_LIMITED"
            <=> Within(AdmittedBefore, tally.limit.now - windowMs + 1, tally.limit.now)
                  >= maxAttempts
       /\ tally.limit.outcome = "RATE_LIMITED" =>
            /\ tally.limit.after = tally.limit.before
            /\ rateLimitStore[tally.limit.key] = tally.limit.before
C34_Witness ==
  /\ tally.limit.outcome = "RATE_LIMITED"
  /\ \E key \in Keys : key # tally.limit.key /\ Len(tally.log[key]) > 0
                        /\ Len(tally.log[key]) < maxAttempts

\* C35: once 15 minutes have passed since the oldest of the 5 attempts
\* recorded for a key, the key's next request is admitted, whether or not
\* requests of the key were rejected in between.
C35_LockoutEnds ==
  (/\ tally.limit.key \in Keys
   /\ Len(tally.limit.before) = maxAttempts
   /\ tally.limit.now - tally.limit.before[1] >= windowMs)
    => tally.limit.outcome = "NEXT"
C35_Witness ==
  /\ tally.limit.key \in Keys
  /\ Len(tally.limit.before) = maxAttempts
  /\ tally.limit.now - tally.limit.before[1] >= windowMs
  /\ tally.limit.afterRejection
  /\ tally.limit.outcome = "NEXT"

\* The reports a collector has completed.
CompletedBy(k) ==
  {r \in Stored : reports[r].status = "completed" /\ reports[r].assignedTo = k}

\* C36: whenever no request is in flight, a collector's assignedReports holds
\* a report exactly when the report is assigned to the collector and is
\* assigned or in_progress, and the collector's completedTasks is the number
\* of reports the collector completed.
C36_CollectorCounters ==
  AllIdle =>
    \A k \in Collectors :
      /\ \A r \in Reports :
           r \in assignedReports[k]
             <=> /\ reports[r].assignedTo = k
                 /\ reports[r].status \in {"assigned", "in_progress"}
      /\ completedTasks[k] = Cardinality(CompletedBy(k))
C36_Witness ==
  /\ AllIdle
  /\ \E k \in Collectors : completedTasks[k] = 1 /\ Cardinality(CompletedBy(k)) = 1

\* C37: every redemption of the redemptions array references a reward that is
\* still in the rewards array, whatever redemptions and admin deletions were
\* made.
C37_RedemptionsKeepTheirReward ==
  \A i \in DOMAIN redemptions : RewardFound(redemptions[i])

\* C38: submit requests that overlap each create a report with a reportId of
\* its own, and none of them fails because its reportId is taken.
C38_DistinctReportIds ==
  /\ \A i, j \in DOMAIN reportIds : reportIds[i] = reportIds[j] => i = j
  /\ tally.last.kind = "submit" => tally.last.outcome # "SUBMISSION_ERROR"
  /\ AllIdle => Len(reportIds) = tally.calls

\* The reports of a citizen that points were awarded for.
AwardedOf(u) == {r \in Stored : CitizenOf(r) = u /\ reports[r].pointsAwarded > 0}

\* C39: a citizen's completedReports is always the number of the citizen's
\* reports with pointsAwarded > 0, and never more than the citizen's
\* totalReports.
C39_CompletedReportsCount ==
  \A u \in Citizens :
    /\ completedReports[u] = Cardinality(AwardedOf(u))
    /\ completedReports[u] <= totalReports[u]

\* The same with no request in flight.
C39_AtRest == AllIdle => C39_CompletedReportsCount
====
